---- MODULE Spec2Model ----
(***************************************************************************)
(* Model of tablet-mods/install-tablet-apps.py: the catalog store          *)
(* (load_apps_config), the placeholder install (install_app,               *)
(* configure_app_for_tablet, install_category, install_all_apps), the      *)
(* shortcut generator (create_app_shortcuts, create_app_shortcut) and the  *)
(* command dispatcher (main).                                              *)
(*                                                                         *)
(* The state is the file system the program touches (the catalog file,     *)
(* the per-package tablet.json files, the per-package .desktop files),     *)
(* the running process (argv, its position pc, the locals of the function  *)
(* it is in, its log and exit status), and the history needed to state     *)
(* the properties (whether the command line repeats that of the previous   *)
(* process, the files at process start).                                   *)
(*                                                                         *)
(* Environment: every operation that creates or changes a file-system      *)
(* object (mkdir, open for writing, write, chmod) may fail with an OSError *)
(* (at most MaxFaults times in a process; a process in which one was       *)
(* raised is the last one of the behaviour).  Reads of an existing file    *)
(* succeed.  A Python dict is an ordered sequence of keys; an app entry    *)
(* is a function from its keys to its values.                              *)
(***************************************************************************)
EXTENDS Integers, Sequences, FiniteSets, TLC

\* Bounds of the model.
MaxRuns == 2
MaxFaults == 1

VARIABLES
  argv,           \* sys.argv[1:] of the running (or last) process
  pc,             \* position of the process
  config_dir,     \* /etc/tablet-apps: file name -> file (holds apps.json)
  tablet_json,    \* package -> /data/data/<package>/tablet-config/tablet.json
  desktop,        \* package -> /usr/share/applications/tablet-apps/<package>.desktop
  apps_config,    \* local apps_config of the function being executed
  i,              \* position of the for loop in the sequence it iterates
  success_count,  \* success_count / total_success
  install_ret,    \* value returned by install_category / install_all_apps
  exit_status,    \* exit status of the process
  unhandled,      \* the process ended in an unhandled exception
  log,            \* records the logger emitted in this process
  runs,           \* processes started so far
  faults,         \* OSErrors the environment raised in this process
  rerun,          \* this process was given the command line of the previous one
  snap            \* the files when this process started

vars == <<argv, pc, config_dir, tablet_json, desktop, apps_config, i,
          success_count, install_ret, exit_status, unhandled, log, runs,
          faults, rerun, snap>>

-----------------------------------------------------------------------------
\* Data: the built-in default catalog.

App(n, p, c, t, s) ==
  [name |-> n, package |-> p, category |-> c,
   tablet_optimized |-> t, stylus_support |-> s]

default_config == <<
  [key |-> "productivity", apps |-> <<
     App("Google Docs", "com.google.android.apps.docs.editors.docs", "productivity", TRUE, TRUE),
     App("Google Sheets", "com.google.android.apps.docs.editors.sheets", "productivity", TRUE, TRUE),
     App("Google Slides", "com.google.android.apps.docs.editors.slides", "productivity", TRUE, TRUE),
     App("Microsoft Word", "com.microsoft.office.word", "productivity", TRUE, TRUE),
     App("Microsoft Excel", "com.microsoft.office.excel", "productivity", TRUE, TRUE),
     App("Microsoft PowerPoint", "com.microsoft.office.powerpoint", "productivity", TRUE, TRUE) >>],
  [key |-> "creative", apps |-> <<
     App("Adobe Photoshop Express", "com.adobe.psmobile", "creative", TRUE, TRUE),
     App("Autodesk SketchBook", "com.adsk.sketchbook", "creative", TRUE, TRUE),
     App("Canva", "com.canva.editor", "creative", TRUE, FALSE),
     App("Concepts", "com.tophatch.concepts", "creative", TRUE, TRUE) >>],
  [key |-> "entertainment", apps |-> <<
     App("Netflix", "com.netflix.mediaclient", "entertainment", TRUE, FALSE),
     App("Spotify", "com.spotify.music", "entertainment", TRUE, FALSE),
     App("YouTube", "com.google.android.youtube", "entertainment", TRUE, FALSE),
     App("VLC Media Player", "org.videolan.vlc", "entertainment", TRUE, FALSE) >>],
  [key |-> "utilities", apps |-> <<
     App("Google Keep", "com.google.android.keep", "utilities", TRUE, TRUE),
     App("Google Calendar", "com.google.android.calendar", "utilities", TRUE, FALSE),
     App("Google Photos", "com.google.android.apps.photos", "utilities", TRUE, FALSE),
     App("File Manager", "com.google.android.apps.nbu.files", "utilities", TRUE, FALSE) >>] >>

-----------------------------------------------------------------------------
\* Python dict operations on a catalog and on an app entry.

\* app_info.get(key, default)
Get(app, k, dflt) == IF k \in DOMAIN app THEN app[k] ELSE dflt

\* truth value of app_info.get(key): None (key absent) is false
Truthy(app, k) == Get(app, k, FALSE) = TRUE

\* category in apps_config
HasKey(cfg, k) == \E n \in 1..Len(cfg) : cfg[n].key = k

\* apps_config[category] (the program evaluates it for a present key only)
Lookup(cfg, k) ==
  IF HasKey(cfg, k) THEN cfg[CHOOSE n \in 1..Len(cfg) : cfg[n].key = k].apps ELSE <<>>

\* d[k] = v on an insertion-ordered dict: an existing key keeps its place
DictSet(cfg, k, v) ==
  IF HasKey(cfg, k)
  THEN [n \in 1..Len(cfg) |-> IF cfg[n].key = k THEN [key |-> k, apps |-> v] ELSE cfg[n]]
  ELSE Append(cfg, [key |-> k, apps |-> v])

\* the apps in the order "for category, apps in apps_config.items(): for app in apps"
RECURSIVE AllAppsFrom(_, _)
AllAppsFrom(cfg, n) ==
  IF n > Len(cfg) THEN <<>> ELSE cfg[n].apps \o AllAppsFrom(cfg, n + 1)

AllApps(cfg) == AllAppsFrom(cfg, 1)

-----------------------------------------------------------------------------
\* JSON text.  A file body is the sequence of JSON tokens of its text
\* (white space, which json.load skips, is not kept).

LB == [t |-> "{"]
RB == [t |-> "}"]
LS == [t |-> "["]
RS == [t |-> "]"]
Colon == [t |-> ":"]
Comma == [t |-> ","]
Str(s) == [t |-> "str", v |-> s]
Bool(b) == [t |-> "bool", v |-> b]

\* key order of the entries of default_config
KeyOrder == <<"name", "package", "category", "tablet_optimized", "stylus_support">>

\* a dump that writes a bool as Python prints it (True / False), which is
\* no JSON token
DumpScalarPython(k, v) ==
  IF k \in {"tablet_optimized", "stylus_support"} THEN [t |-> "name", v |-> v] ELSE Str(v)

\* json.dump of one scalar of an entry: a Python bool becomes true / false,
\* a str a string literal
DumpScalar(k, v) ==
  IF k \in {"tablet_optimized", "stylus_support"} THEN Bool(v) ELSE Str(v)

RECURSIVE DumpMembers(_, _, _)
DumpMembers(app, keys, n) ==
  IF n > Len(keys) THEN <<>>
  ELSE (IF n > 1 THEN <<Comma>> ELSE <<>>)
       \o <<Str(keys[n]), Colon, DumpScalar(keys[n], app[keys[n]])>>
       \o DumpMembers(app, keys, n + 1)

\* json.dump of an app entry
DumpApp(app) ==
  <<LB>> \o DumpMembers(app, SelectSeq(KeyOrder, LAMBDA k : k \in DOMAIN app), 1) \o <<RB>>

RECURSIVE DumpApps(_, _)
DumpApps(apps, n) ==
  IF n > Len(apps) THEN <<>>
  ELSE (IF n > 1 THEN <<Comma>> ELSE <<>>) \o DumpApp(apps[n]) \o DumpApps(apps, n + 1)

RECURSIVE DumpCategories(_, _)
DumpCategories(cfg, n) ==
  IF n > Len(cfg) THEN <<>>
  ELSE (IF n > 1 THEN <<Comma>> ELSE <<>>)
       \o <<Str(cfg[n].key), Colon, LS>> \o DumpApps(cfg[n].apps, 1) \o <<RS>>
       \o DumpCategories(cfg, n + 1)

\* json.dump(default_config, f, indent=2): the text written for a catalog
json_dump(cfg) == <<LB>> \o DumpCategories(cfg, 1) \o <<RB>>

\* the text of the default catalog
DefaultText == json_dump(default_config)

\* json.load, on the documents the model's file system holds (catalogs and
\* damaged catalogs): a recursive descent over the tokens.  A result is
\* [ok, val, next]; ok = FALSE stands for the JSONDecodeError.
ParseFail == [ok |-> FALSE]
Tok(toks, n) == IF n \in 1..Len(toks) THEN toks[n] ELSE [t |-> "eof"]

\* members of an entry object, from the member starting at n; a repeated
\* key keeps the last value
RECURSIVE ParseAppMembers(_, _, _)
ParseAppMembers(toks, n, acc) ==
  IF /\ Tok(toks, n).t = "str"
     /\ Tok(toks, n + 1).t = ":"
     /\ Tok(toks, n + 2).t \in {"str", "bool"}
  THEN LET d == (toks[n].v :> toks[n + 2].v) @@ acc IN
       CASE Tok(toks, n + 3).t = "," -> ParseAppMembers(toks, n + 4, d)
         [] Tok(toks, n + 3).t = "}" -> [ok |-> TRUE, val |-> d, next |-> n + 4]
         [] OTHER -> ParseFail
  ELSE ParseFail

ParseApp(toks, n) ==
  CASE Tok(toks, n).t # "{" -> ParseFail
    [] Tok(toks, n + 1).t = "}" -> [ok |-> TRUE, val |-> <<>>, next |-> n + 2]
    [] OTHER -> ParseAppMembers(toks, n + 1, <<>>)

\* elements of an array of entries, from the element starting at n
RECURSIVE ParseAppsFrom(_, _, _)
ParseAppsFrom(toks, n, acc) ==
  LET a == ParseApp(toks, n) IN
  IF ~a.ok THEN ParseFail
  ELSE CASE Tok(toks, a.next).t = "," ->
              ParseAppsFrom(toks, a.next + 1, Append(acc, a.val))
         [] Tok(toks, a.next).t = "]" ->
              [ok |-> TRUE, val |-> Append(acc, a.val), next |-> a.next + 1]
         [] OTHER -> ParseFail

ParseApps(toks, n) ==
  CASE Tok(toks, n).t # "[" -> ParseFail
    [] Tok(toks, n + 1).t = "]" -> [ok |-> TRUE, val |-> <<>>, next |-> n + 2]
    [] OTHER -> ParseAppsFrom(toks, n + 1, <<>>)

\* members of the catalog object, from the member starting at n
RECURSIVE ParseCategories(_, _, _)
ParseCategories(toks, n, acc) ==
  IF Tok(toks, n).t = "str" /\ Tok(toks, n + 1).t = ":"
  THEN LET a == ParseApps(toks, n + 2) IN
       IF ~a.ok THEN ParseFail
       ELSE LET d == DictSet(acc, toks[n].v, a.val) IN
            CASE Tok(toks, a.next).t = "," -> ParseCategories(toks, a.next + 1, d)
              [] Tok(toks, a.next).t = "}" -> [ok |-> TRUE, val |-> d, next |-> a.next + 1]
              [] OTHER -> ParseFail
  ELSE ParseFail

\* json.load(f): the whole text must be one document
json_load(toks) ==
  LET r == CASE Tok(toks, 1).t # "{" -> ParseFail
             [] Tok(toks, 2).t = "}" -> [ok |-> TRUE, val |-> <<>>, next |-> 3]
             [] OTHER -> ParseCategories(toks, 2, <<>>)
  IN IF r.ok /\ r.next = Len(toks) + 1 THEN [ok |-> TRUE, val |-> r.val] ELSE ParseFail

-----------------------------------------------------------------------------
\* Files.  A directory maps the names of the files it holds to
\* [body, exec]: the content and whether the file is executable.  The body
\* of a tablet.json is the one JSON document written to it; the body of a
\* .desktop file is its lines.

\* self.apps_config = self.config_dir / "apps.json"
apps_json == "apps.json"

Exists(dir, name) == name \in DOMAIN dir

\* a file opened for writing keeps its mode; a new file is not executable
ModeOf(dir, name) == IF Exists(dir, name) THEN dir[name].exec ELSE FALSE

\* a file opened with 'a' instead of 'w'
open_append(dir, name, body, f) ==
  CASE f = "open" -> [files |-> dir, raised |-> TRUE]
    [] f = "write" -> [files |-> dir, raised |-> TRUE]
    [] OTHER ->
         [files |-> (name :> [body |-> (IF Exists(dir, name) THEN dir[name].body ELSE <<>>) \o body,
                              exec |-> ModeOf(dir, name)]) @@ dir,
          raised |-> FALSE]

\* with open(path, 'w') as f: <write body>.  f is what the environment does:
\* "none" (the write succeeds), "open" (open raises, nothing is touched) or
\* "write" (the file was created or truncated, then the write raises).
open_write(dir, name, body, f) ==
  CASE f = "open" -> [files |-> dir, raised |-> TRUE]
    [] f = "write" ->
         [files |-> (name :> [body |-> <<>>, exec |-> ModeOf(dir, name)]) @@ dir,
          raised |-> TRUE]
    [] OTHER ->
         [files |-> (name :> [body |-> body, exec |-> ModeOf(dir, name)]) @@ dir,
          raised |-> FALSE]

\* shortcut_file.chmod(0o755)
chmod_exec(dir, name) == [dir EXCEPT ![name].exec = TRUE]

-----------------------------------------------------------------------------
\* The catalog store.

\* a load that replaces a file it cannot parse by the defaults
load_with_repair(dir, f) ==
  IF Exists(dir, apps_json)
  THEN LET r == json_load(dir[apps_json].body) IN
       IF r.ok
       THEN [ret |-> r.val, files |-> dir, raised |-> FALSE, log |-> <<>>]
       ELSE [ret |-> default_config,
             files |-> open_write(dir, apps_json, json_dump(default_config), "none").files,
             raised |-> FALSE,
             log |-> <<"ERROR: Failed to load apps config">>]
  ELSE LET w == open_write(dir, apps_json, json_dump(default_config), f) IN
       [ret |-> default_config, files |-> w.files, raised |-> w.raised, log |-> <<>>]

\* a load that lays the defaults under the categories of the file
load_over_defaults(dir, f) ==
  IF Exists(dir, apps_json)
  THEN LET r == json_load(dir[apps_json].body) IN
       IF r.ok
       THEN [ret |-> default_config \o r.val, files |-> dir, raised |-> FALSE, log |-> <<>>]
       ELSE [ret |-> default_config, files |-> dir, raised |-> FALSE,
             log |-> <<"ERROR: Failed to load apps config">>]
  ELSE LET w == open_write(dir, apps_json, json_dump(default_config), f) IN
       [ret |-> default_config, files |-> w.files, raised |-> w.raised, log |-> <<>>]

\* load_apps_config: [ret, files, raised, log]
load_apps_config(dir, f) ==
  IF Exists(dir, apps_json)
  THEN LET r == json_load(dir[apps_json].body) IN
       IF r.ok
       THEN [ret |-> r.val, files |-> dir, raised |-> FALSE, log |-> <<>>]
       ELSE [ret |-> default_config, files |-> dir, raised |-> FALSE,
             log |-> <<"ERROR: Failed to load apps config">>]
  ELSE LET w == open_write(dir, apps_json, json_dump(default_config), f) IN
       [ret |-> default_config, files |-> w.files, raised |-> w.raised, log |-> <<>>]

-----------------------------------------------------------------------------
\* The placeholder install.

\* a config dict whose stylus flag copies the tablet flag
TabletConfigCopied(app) ==
  [tablet_mode |-> TRUE,
   force_tablet_ui |-> Get(app, "tablet_optimized", FALSE),
   stylus_support |-> Get(app, "tablet_optimized", FALSE),
   multi_window |-> TRUE,
   resizable |-> TRUE]

\* the config dict of configure_app_for_tablet
TabletConfig(app) ==
  [tablet_mode |-> TRUE,
   force_tablet_ui |-> Get(app, "tablet_optimized", FALSE),
   stylus_support |-> Get(app, "stylus_support", FALSE),
   multi_window |-> TRUE,
   resizable |-> TRUE]

\* configure_app_for_tablet: [files, raised]; with f = "mkdir" the mkdir of
\* the package's tablet-config directory raises
configure_app_for_tablet(app, dir, f) ==
  IF f = "mkdir" THEN [files |-> dir, raised |-> TRUE]
  ELSE open_write(dir, app.package, <<TabletConfig(app)>>, f)

\* an install_app that reports success whatever the configuration did
install_app_always_true(app, dir, f) ==
  [ret |-> TRUE,
   files |-> configure_app_for_tablet(app, dir, f).files,
   log |-> <<"INFO: Installing " \o app.name>>]

\* install_app: [ret, files, log]; the exception of the configuration is caught
install_app(app, dir, f) ==
  LET c == configure_app_for_tablet(app, dir, f) IN
  [ret |-> ~c.raised,
   files |-> c.files,
   log |-> <<"INFO: Installing " \o app.name>>
           \o (IF c.raised THEN <<"ERROR: Failed to install " \o app.name>> ELSE <<>>)]

-----------------------------------------------------------------------------
\* The shortcut generator.

\* str.title() on the category names of the model
Title(s) ==
  CASE s = "productivity" -> "Productivity"
    [] s = "creative" -> "Creative"
    [] s = "entertainment" -> "Entertainment"
    [] s = "utilities" -> "Utilities"
    [] s = "games" -> "Games"
    [] s = "art tools" -> "Art Tools"
    [] s = "empty" -> "Empty"

TabletMarker == "X-Tablet-Optimized=true"
StylusMarker == "X-Stylus-Support=true"

\* shortcut lines whose stylus marker follows the tablet flag
ShortcutContentOneFlag(app) ==
  << "[Desktop Entry]",
     "Name=" \o app.name,
     "Comment=Tablet-optimized " \o app.name,
     "Exec=am start -n " \o app.package \o "/.MainActivity",
     "Icon=" \o app.package,
     "Type=Application",
     "Categories=TabletApps;" \o Title(app.category) \o ";",
     "StartupNotify=true",
     "MimeType=application/x-tablet-app;" >>
  \o (IF Truthy(app, "tablet_optimized") THEN <<TabletMarker>> ELSE <<>>)
  \o (IF Truthy(app, "tablet_optimized") THEN <<StylusMarker>> ELSE <<>>)

\* the lines of shortcut_content
ShortcutContent(app) ==
  << "[Desktop Entry]",
     "Name=" \o app.name,
     "Comment=Tablet-optimized " \o app.name,
     "Exec=am start -n " \o app.package \o "/.MainActivity",
     "Icon=" \o app.package,
     "Type=Application",
     "Categories=TabletApps;" \o Title(app.category) \o ";",
     "StartupNotify=true",
     "MimeType=application/x-tablet-app;" >>
  \o (IF Truthy(app, "tablet_optimized") THEN <<TabletMarker>> ELSE <<>>)
  \o (IF Truthy(app, "stylus_support") THEN <<StylusMarker>> ELSE <<>>)

\* create_app_shortcut: [files, raised]; with f = "chmod" the file is
\* written and the chmod raises
create_app_shortcut(app, dir, f) ==
  LET w == open_write(dir, app.package, ShortcutContent(app),
                      IF f = "chmod" THEN "none" ELSE f) IN
  CASE w.raised -> w
    [] f = "chmod" -> [files |-> w.files, raised |-> TRUE]
    [] OTHER -> [files |-> chmod_exec(w.files, app.package), raised |-> FALSE]

-----------------------------------------------------------------------------
\* The inputs: the catalog files found at the first start, the command lines.

ChessApp == [name |-> "Chess", package |-> "org.chess", category |-> "games",
             tablet_optimized |-> TRUE]
ChessHdApp == [name |-> "Chess HD", package |-> "org.chess", category |-> "games",
               tablet_optimized |-> FALSE, stylus_support |-> TRUE]
GoApp == [name |-> "Go", package |-> "org.go", category |-> "games"]
SketchApp == [name |-> "Sketch", package |-> "com.adsk.sketchbook",
              category |-> "art tools", stylus_support |-> TRUE]
ChessDrawApp == App("Chess Draw", "org.chess", "art tools", TRUE, TRUE)

\* a catalog file a user wrote: a category key given twice, entries that
\* share a package within and across categories, entries without a flag,
\* an empty category
UserText ==
  <<LB, Str("games"), Colon, LS>> \o DumpApp(GoApp) \o <<RS, Comma,
    Str("art tools"), Colon, LS>> \o DumpApp(SketchApp) \o <<Comma>>
        \o DumpApp(ChessDrawApp) \o <<RS, Comma,
    Str("games"), Colon, LS>> \o DumpApp(ChessApp) \o <<Comma>>
        \o DumpApp(ChessHdApp) \o <<RS, Comma,
    Str("empty"), Colon, LS, RS, RB>>

\* the same file cut short: not a JSON document
DamagedText == SubSeq(UserText, 1, Len(UserText) - 2)

FileOf(body) == apps_json :> [body |-> body, exec |-> FALSE]

InitialConfigDirs == {<<>>, FileOf(UserText), FileOf(DamagedText)}

\* the command lines: games is a category of the user's catalog only,
\* productivity of the default catalog only
Commands ==
  { <<>>, <<"list">>, <<"install-all">>, <<"install">>,
    <<"install", "productivity">>, <<"install", "games">>,
    <<"shortcuts">>, <<"bogus">> }

-----------------------------------------------------------------------------
\* The process.


Files == [config_dir |-> config_dir, tablet_json |-> tablet_json, desktop |-> desktop]

\* what the environment may do to an operation that can raise one of kinds
Choices(kinds) == {"none"} \cup (IF faults < MaxFaults THEN kinds ELSE {})

\* the load writes only when the catalog file is absent
LoadKinds == IF Exists(config_dir, apps_json) THEN {} ELSE {"open", "write"}

Injected(f) == faults' = (IF f = "none" THEN faults ELSE faults + 1)

\* no OSError was raised in this process
clean == faults = 0

\* an exception no handler catches: traceback, exit status 1
Raise ==
  /\ pc' = "exit"
  /\ exit_status' = 1
  /\ unhandled' = TRUE

\* sys.exit(status), or the end of main
Exit(status) ==
  /\ pc' = "exit"
  /\ exit_status' = status
  /\ unhandled' = FALSE

Init ==
  /\ argv = <<>>
  /\ pc = "idle"
  /\ config_dir \in InitialConfigDirs
  /\ tablet_json = <<>>
  /\ desktop = <<>>
  /\ apps_config = <<>>
  /\ i = 0
  /\ success_count = 0
  /\ install_ret = "none"
  /\ exit_status = 0
  /\ unhandled = FALSE
  /\ log = <<>>
  /\ runs = 0
  /\ faults = 0
  /\ rerun = FALSE
  /\ snap = Files

\* the branch main takes for a command line
Dispatch(args) ==
  CASE Len(args) < 1 -> "usage"
    [] args[1] = "list" -> "list"
    [] args[1] = "install-all" -> "install_all"
    [] args[1] = "install" /\ Len(args) > 1 -> "install_category"
    [] args[1] = "shortcuts" -> "shortcuts"
    [] OTHER -> "unknown"

\* A process starts with the command line args: main up to the call of the
\* command's first operation.  TabletAppsInstaller() makes the config
\* directory before the command line is looked at.
Main(args) ==
  /\ pc \in {"idle", "exit"}
  /\ runs < MaxRuns
  /\ faults = 0
  /\ runs' = runs + 1
  /\ argv' = args
  /\ rerun' = (pc = "exit" /\ argv = args)
  /\ snap' = Files
  /\ log' = <<>>
  /\ apps_config' = <<>>
  /\ i' = 0
  /\ success_count' = 0
  /\ install_ret' = "none"
  /\ \E f \in Choices({"mkdir"}) :
       /\ Injected(f)
       /\ IF f = "mkdir" THEN Raise
          ELSE IF Dispatch(args) \in {"usage", "unknown"} THEN Exit(1)
          ELSE /\ pc' = Dispatch(args)
               /\ exit_status' = 0
               /\ unhandled' = FALSE
  /\ UNCHANGED <<config_dir, tablet_json, desktop>>

\* list_available_apps, and the end of main
ListApps ==
  /\ pc = "list"
  /\ \E f \in Choices(LoadKinds) :
       LET r == load_apps_config(config_dir, f) IN
       /\ Injected(f)
       /\ config_dir' = r.files
       /\ log' = log \o r.log
       /\ IF r.raised
          THEN Raise /\ UNCHANGED apps_config
          ELSE Exit(0) /\ apps_config' = r.ret
  /\ UNCHANGED <<argv, tablet_json, desktop, i, success_count, install_ret,
                 runs, rerun, snap>>

\* a category check that lets every name through
CategoryAlwaysKnown(cfg, category) == TRUE

\* "category not in apps_config" is false
CategoryKnown(cfg, category) == HasKey(cfg, category)

\* install_category up to its loop: the load and the category check
InstallCategoryBegin ==
  /\ pc = "install_category"
  /\ \E f \in Choices(LoadKinds) :
       LET r == load_apps_config(config_dir, f) IN
       /\ Injected(f)
       /\ config_dir' = r.files
       /\ IF r.raised
          THEN /\ Raise
               /\ log' = log \o r.log
               /\ UNCHANGED <<apps_config, i, install_ret>>
          ELSE /\ apps_config' = r.ret
               /\ UNCHANGED <<exit_status, unhandled>>
               /\ IF ~CategoryKnown(r.ret, argv[2])
                  THEN /\ log' = log \o r.log \o <<"ERROR: Unknown category: " \o argv[2]>>
                       /\ install_ret' = "false"
                       /\ pc' = "shortcuts"
                       /\ UNCHANGED i
                  ELSE /\ log' = log \o r.log
                       /\ i' = 1
                       /\ pc' = "install_category_loop"
                       /\ UNCHANGED install_ret
  /\ UNCHANGED <<argv, tablet_json, desktop, success_count, runs, rerun, snap>>

\* one iteration of "for app in apps" in install_category
InstallCategoryStep ==
  /\ pc = "install_category_loop"
  /\ i <= Len(Lookup(apps_config, argv[2]))
  /\ \E f \in Choices({"mkdir", "open", "write"}) :
       LET r == install_app(Lookup(apps_config, argv[2])[i], tablet_json, f) IN
       /\ Injected(f)
       /\ tablet_json' = r.files
       /\ log' = log \o r.log
       /\ success_count' = (IF r.ret THEN success_count + 1 ELSE success_count)
  /\ i' = i + 1
  /\ UNCHANGED <<argv, pc, config_dir, desktop, apps_config, install_ret,
                 exit_status, unhandled, runs, rerun, snap>>

\* a main that makes the shortcuts only after a successful install
InstallCategoryReturnThenStop ==
  /\ pc = "install_category_loop"
  /\ i > Len(Lookup(apps_config, argv[2]))
  /\ install_ret' = (IF success_count = Len(Lookup(apps_config, argv[2]))
                     THEN "true" ELSE "false")
  /\ IF success_count = Len(Lookup(apps_config, argv[2]))
     THEN pc' = "shortcuts" /\ UNCHANGED <<exit_status, unhandled>>
     ELSE Exit(0)
  /\ UNCHANGED <<argv, config_dir, tablet_json, desktop, apps_config, i,
                 success_count, log, runs, faults, rerun, snap>>

\* the return of install_category; main goes on to create_app_shortcuts
InstallCategoryReturn ==
  /\ pc = "install_category_loop"
  /\ i > Len(Lookup(apps_config, argv[2]))
  /\ install_ret' = (IF success_count = Len(Lookup(apps_config, argv[2]))
                     THEN "true" ELSE "false")
  /\ pc' = "shortcuts"
  /\ UNCHANGED <<argv, config_dir, tablet_json, desktop, apps_config, i,
                 success_count, exit_status, unhandled, log, runs, faults,
                 rerun, snap>>

\* install_all_apps up to its loops: the load
InstallAllBegin ==
  /\ pc = "install_all"
  /\ \E f \in Choices(LoadKinds) :
       LET r == load_apps_config(config_dir, f) IN
       /\ Injected(f)
       /\ config_dir' = r.files
       /\ log' = log \o r.log
       /\ IF r.raised
          THEN Raise /\ UNCHANGED <<apps_config, i>>
          ELSE /\ apps_config' = r.ret
               /\ i' = 1
               /\ pc' = "install_all_loop"
               /\ UNCHANGED <<exit_status, unhandled>>
  /\ UNCHANGED <<argv, tablet_json, desktop, success_count, install_ret,
                 runs, rerun, snap>>

\* one iteration of the inner loop of install_all_apps
InstallAllStep ==
  /\ pc = "install_all_loop"
  /\ i <= Len(AllApps(apps_config))
  /\ \E f \in Choices({"mkdir", "open", "write"}) :
       LET r == install_app(AllApps(apps_config)[i], tablet_json, f) IN
       /\ Injected(f)
       /\ tablet_json' = r.files
       /\ log' = log \o r.log
       /\ success_count' = (IF r.ret THEN success_count + 1 ELSE success_count)
  /\ i' = i + 1
  /\ UNCHANGED <<argv, pc, config_dir, desktop, apps_config, install_ret,
                 exit_status, unhandled, runs, rerun, snap>>

\* the return of install_all_apps; main goes on to create_app_shortcuts
InstallAllReturn ==
  /\ pc = "install_all_loop"
  /\ i > Len(AllApps(apps_config))
  /\ install_ret' = (IF success_count = Len(AllApps(apps_config))
                     THEN "true" ELSE "false")
  /\ pc' = "shortcuts"
  /\ UNCHANGED <<argv, config_dir, tablet_json, desktop, apps_config, i,
                 success_count, exit_status, unhandled, log, runs, faults,
                 rerun, snap>>

\* create_app_shortcuts up to its loops: the mkdir and the load
ShortcutsBegin ==
  /\ pc = "shortcuts"
  /\ \E f \in Choices({"mkdir"} \cup LoadKinds) :
       LET r == load_apps_config(config_dir, f) IN
       /\ Injected(f)
       /\ IF f = "mkdir"
          THEN Raise /\ UNCHANGED <<config_dir, apps_config, i, log>>
          ELSE /\ config_dir' = r.files
               /\ log' = log \o r.log
               /\ IF r.raised
                  THEN Raise /\ UNCHANGED <<apps_config, i>>
                  ELSE /\ apps_config' = r.ret
                       /\ i' = 1
                       /\ pc' = "shortcuts_loop"
                       /\ UNCHANGED <<exit_status, unhandled>>
  /\ UNCHANGED <<argv, tablet_json, desktop, success_count, install_ret,
                 runs, rerun, snap>>

\* one iteration of the inner loop of create_app_shortcuts: no handler
\* around create_app_shortcut
ShortcutsStep ==
  /\ pc = "shortcuts_loop"
  /\ i <= Len(AllApps(apps_config))
  /\ \E f \in Choices({"open", "write", "chmod"}) :
       LET r == create_app_shortcut(AllApps(apps_config)[i], desktop, f) IN
       /\ Injected(f)
       /\ desktop' = r.files
       /\ IF r.raised
          THEN Raise /\ UNCHANGED i
          ELSE /\ i' = i + 1
               /\ UNCHANGED <<pc, exit_status, unhandled>>
  /\ UNCHANGED <<argv, config_dir, tablet_json, apps_config, success_count,
                 install_ret, log, runs, rerun, snap>>

\* a main whose exit status reports the result of the install
ShortcutsReturnWithResult ==
  /\ pc = "shortcuts_loop"
  /\ i > Len(AllApps(apps_config))
  /\ Exit(IF install_ret = "false" THEN 1 ELSE 0)
  /\ UNCHANGED <<argv, config_dir, tablet_json, desktop, apps_config, i,
                 success_count, install_ret, log, runs, faults, rerun, snap>>

\* the return of create_app_shortcuts, and the end of main
ShortcutsReturn ==
  /\ pc = "shortcuts_loop"
  /\ i > Len(AllApps(apps_config))
  /\ Exit(0)
  /\ UNCHANGED <<argv, config_dir, tablet_json, desktop, apps_config, i,
                 success_count, install_ret, log, runs, faults, rerun, snap>>

Next ==
  \/ \E args \in Commands : Main(args)
  \/ ListApps
  \/ InstallCategoryBegin
  \/ InstallCategoryStep
  \/ InstallCategoryReturn
  \/ InstallAllBegin
  \/ InstallAllStep
  \/ InstallAllReturn
  \/ ShortcutsBegin
  \/ ShortcutsStep
  \/ ShortcutsReturn

Spec == Init /\ [][Next]_vars

-----------------------------------------------------------------------------
\* Properties.

LoadPcs == {"list", "install_category", "install_all", "shortcuts"}

\* a step in which load_apps_config was called and returned: apps_config'
\* is what it returned
LoadReturned == pc \in LoadPcs /\ ~unhandled'

Parses(dir) == Exists(dir, apps_json) /\ json_load(dir[apps_json].body).ok
Corrupt(dir) == Exists(dir, apps_json) /\ ~json_load(dir[apps_json].body).ok

\* the catalog a load returns from the catalog file of dir
CatalogOf(dir) == load_apps_config(dir, "none").ret

\* C1: a load that finds no catalog file and returns has written a catalog
\* file whose content parses to the default catalog (four categories) and
\* has returned the default catalog; a load that finds the file so written
\* (in this process or a later one) returns the same catalog.
C1_FirstLoadSavesDefaults ==
  [][ LoadReturned =>
        /\ ~Exists(config_dir, apps_json) =>
             /\ Exists(config_dir', apps_json)
             /\ json_load(config_dir'[apps_json].body) = [ok |-> TRUE, val |-> default_config]
             /\ apps_config' = default_config
             /\ [n \in 1..Len(apps_config') |-> apps_config'[n].key]
                  = <<"productivity", "creative", "entertainment", "utilities">>
        /\ config_dir = FileOf(json_dump(default_config)) => apps_config' = default_config
    ]_vars

\* C1 witness: the install phase of a process that found no catalog file
\* created it, and the load of the shortcut phase returned the defaults from it.
C1_Witness ==
  /\ pc = "shortcuts_loop"
  /\ argv = <<"install-all">>
  /\ ~Exists(snap.config_dir, apps_json)
  /\ Parses(config_dir)
  /\ apps_config = default_config

\* C2: while the catalog file is corrupt no step of any command changes
\* it, and every load that returns has returned the default catalog and
\* logged the error.
C2_CorruptFileKept ==
  [][ ((config_dir' # config_dir \/ LoadReturned) /\ Corrupt(config_dir)) =>
        /\ config_dir' = config_dir
        /\ LoadReturned =>
             /\ apps_config' = default_config
             /\ Len(log') > Len(log)
             /\ log'[Len(log) + 1] = "ERROR: Failed to load apps config"
    ]_vars

\* C2 witness: a second command has ended on the corrupt file, which is as
\* it was, after loading the defaults.
C2_Witness ==
  /\ pc = "exit"
  /\ runs = 2
  /\ argv = <<"install-all">>
  /\ config_dir = FileOf(DamagedText)
  /\ apps_config = default_config
  /\ exit_status = 0

\* C3: every load that finds a JSON document in the catalog file returns
\* the parsed document; the catalog file changes only in a step that loads
\* and finds it absent (so an existing file is never rewritten, and the
\* file is written at most once).
C3_ValidFileWins ==
  [][ /\ (LoadReturned /\ Exists(config_dir, apps_json)) =>
           LET r == json_load(config_dir[apps_json].body) IN
           r.ok => apps_config' = r.val
      /\ config_dir' # config_dir =>
           /\ ~Exists(config_dir, apps_json)
           /\ pc \in LoadPcs
           /\ Exists(config_dir', apps_json)
    ]_vars

\* C3 witness: a second process has loaded the user's catalog, which is
\* not the default one, from the unchanged file.
C3_Witness ==
  /\ pc = "exit"
  /\ runs = 2
  /\ config_dir = FileOf(UserText)
  /\ apps_config = json_load(UserText).val
  /\ apps_config # default_config
  /\ Len(apps_config) = 3

\* a step that is the whole of install_category for a category that is not
\* a key of the catalog the load returns
UnknownCategoryCall ==
  pc = "install_category" /\ ~HasKey(CatalogOf(config_dir), argv[2])

\* C4 as claimed: install_category with an unknown category returns false
\* and writes no file, whatever the file system holds (no OSError raised).
C4_Claimed ==
  [][ (UnknownCategoryCall /\ faults' = faults) =>
        /\ install_ret' = "false"
        /\ Files' = Files
    ]_vars

\* C4 amended: install_category with an unknown category writes no
\* tablet-config file and no shortcut file and leaves an existing catalog
\* file as it is; when the catalog file is absent its load creates it with
\* the default catalog; it returns false unless that write raises, and then
\* the OSError ends the process.
C4_UnknownCategory ==
  [][ UnknownCategoryCall =>
        /\ tablet_json' = tablet_json
        /\ desktop' = desktop
        /\ Exists(config_dir, apps_json) => config_dir' = config_dir
        /\ IF faults' = faults
           THEN /\ install_ret' = "false"
                /\ ~unhandled'
                /\ ~Exists(config_dir, apps_json) =>
                     config_dir' = FileOf(json_dump(default_config))
           ELSE /\ unhandled'
                /\ install_ret' = "none"
                /\ ~Exists(config_dir, apps_json)
    ]_vars

\* C4 witness: install_category has returned false for games, which is no
\* category of the default catalog, in a process that found no catalog
\* file, and the file is there.
C4_Witness ==
  /\ pc = "shortcuts"
  /\ argv = <<"install", "games">>
  /\ install_ret = "false"
  /\ ~Exists(snap.config_dir, apps_json)
  /\ Exists(config_dir, apps_json)
  /\ tablet_json = <<>>
  /\ desktop = <<>>

\* the sequence the loop the process is in iterates over
Todo ==
  IF pc = "install_category_loop" THEN Lookup(apps_config, argv[2])
  ELSE AllApps(apps_config)

InInstallLoop == pc \in {"install_category_loop", "install_all_loop"} /\ i <= Len(Todo)
InShortcutLoop == pc = "shortcuts_loop" /\ i <= Len(Todo)

\* the last of the entries of apps with package p
LastWith(apps, p) ==
  apps[CHOOSE n \in 1..Len(apps) :
         /\ apps[n].package = p
         /\ \A m \in (n + 1)..Len(apps) : apps[m].package # p]

Packages(apps) == {apps[n].package : n \in 1..Len(apps)}

\* C5 as claimed: in the install batches and in the shortcut batch alike,
\* the iteration for one app is followed by the iteration for the next,
\* whether or not a write of that app raised.
C5_Claimed ==
  [][ (InInstallLoop \/ InShortcutLoop) => (pc' = pc /\ i' = i + 1) ]_vars

\* C5 amended: an OSError raised while an app is installed (its tablet
\* config written) is caught for that app: the app is not counted as a
\* success, the files of the other packages are untouched, and the batch
\* goes on with the next app, whose config is written when its own write
\* succeeds.  An OSError raised while a shortcut is generated is not
\* caught: it ends the process at that entry (unhandled exception, exit
\* status 1) with the shortcuts of the other packages as they were, and a
\* process that has ended writes nothing: the remaining shortcuts are not
\* written.
C5_InstallFailuresCaught ==
  [][ /\ InInstallLoop =>
           LET app == Todo[i] IN
           /\ pc' = pc
           /\ i' = i + 1
           /\ ~unhandled'
           /\ success_count' = (IF faults' = faults THEN success_count + 1 ELSE success_count)
           /\ faults' = faults =>
                /\ Exists(tablet_json', app.package)
                /\ tablet_json'[app.package].body = <<TabletConfig(app)>>
           /\ DOMAIN tablet_json' \subseteq DOMAIN tablet_json \cup {app.package}
           /\ \A q \in DOMAIN tablet_json \ {app.package} : tablet_json'[q] = tablet_json[q]
      /\ InShortcutLoop =>
           IF faults' = faults
           THEN pc' = pc /\ i' = i + 1
           ELSE /\ pc' = "exit"
                /\ unhandled'
                /\ exit_status' = 1
                /\ i' = i
                /\ DOMAIN desktop' \subseteq DOMAIN desktop \cup {Todo[i].package}
                /\ \A q \in DOMAIN desktop \ {Todo[i].package} : desktop'[q] = desktop[q]
      /\ pc = "exit" => Files' = Files
    ]_vars

\* C5 witness: install-all is through its batch; the write of one app
\* failed, every other app was counted, and the config of the last app,
\* processed after the failure, is on disk.
C5_Witness ==
  /\ pc = "install_all_loop"
  /\ i = Len(Todo) + 1
  /\ faults = 1
  /\ success_count = Len(Todo) - 1
  /\ Len(Todo) > 1
  /\ Exists(tablet_json, Todo[Len(Todo)].package)
  /\ tablet_json[Todo[Len(Todo)].package].body = <<TabletConfig(Todo[Len(Todo)])>>
  /\ \E n \in 1..(Len(Todo) - 1) :
       \/ ~Exists(tablet_json, Todo[n].package)
       \/ tablet_json[Todo[n].package].body = <<>>

\* the command line names a command main knows
KnownCommand == Len(argv) > 0 /\ argv[1] \in {"list", "install-all", "install", "shortcuts"}

\* C6 as claimed: the exit status is 1 exactly when the command is missing
\* or unknown (install without a category is answered "Unknown command"),
\* and 0 for every list, install-all, install <category> and shortcuts.
C6_Claimed ==
  pc = "exit" => (exit_status = 1 <=> Dispatch(argv) \in {"usage", "unknown"})

\* C6 amended: the exit status is 1 when the command is missing or unknown
\* (install without a category included) or when an OSError escapes (from
\* the mkdir of the config or shortcut directory, the write of the default
\* catalog, the write or chmod of a shortcut), and 0 otherwise: installs
\* that failed do not change it.  Without an OSError no process ends in an
\* unhandled exception, whatever the command line.
C6_ExitStatus ==
  pc = "exit" =>
    /\ exit_status = (IF Dispatch(argv) \in {"usage", "unknown"} \/ unhandled THEN 1 ELSE 0)
    /\ unhandled => faults > 0
    /\ (faults = 0 /\ KnownCommand /\ (argv[1] = "install" => Len(argv) > 1)) => exit_status = 0
    /\ (install_ret = "false" /\ ~unhandled) => exit_status = 0

\* C6 witness: an install whose app failed has ended with status 0.
C6_Witness ==
  /\ pc = "exit"
  /\ argv = <<"install", "productivity">>
  /\ install_ret = "false"
  /\ faults > 0
  /\ success_count < Len(Lookup(apps_config, "productivity"))
  /\ ~unhandled
  /\ exit_status = 0

\* C7: when install <category>, install-all or shortcuts is run again with
\* the same command line, the catalog unchanged and no OSError raised, the
\* process ends with every file (catalog, tablet configs, shortcuts) as it
\* was when it started: same files, same content, same mode.
C7_Idempotent ==
  ( /\ pc = "exit"
    /\ rerun
    /\ faults = 0
    /\ Dispatch(argv) \in {"install_category", "install_all", "shortcuts"} )
  => Files = snap

\* C7 witness: install-all has been run a second time, on the user's
\* catalog (its entries share a package), and the files are as before.
C7_Witness ==
  /\ pc = "exit"
  /\ rerun
  /\ faults = 0
  /\ argv = <<"install-all">>
  /\ config_dir = FileOf(UserText)
  /\ DOMAIN desktop = {"org.chess", "com.adsk.sketchbook"}
  /\ DOMAIN tablet_json = {"org.chess", "com.adsk.sketchbook"}
  /\ Files = snap

\* install_category has just returned, for a category of the catalog
InstallCategoryReturned ==
  /\ pc = "shortcuts"
  /\ Dispatch(argv) = "install_category"
  /\ HasKey(apps_config, argv[2])

\* the "Installing" records of the log
Attempts ==
  LET all == AllApps(apps_config) IN
  SelectSeq(log, LAMBDA m : \E n \in 1..Len(all) : m = "INFO: Installing " \o all[n].name)

\* C8 as claimed: install_category for a category of the catalog attempts
\* every entry in catalog order and returns true exactly when every
\* install succeeded; when no write failed, every entry's package has a
\* tablet config with tablet_mode, multi_window, resizable true and the
\* two flags of that entry.
C8_Claimed ==
  InstallCategoryReturned =>
    LET apps == Lookup(apps_config, argv[2]) IN
    /\ Attempts = [n \in 1..Len(apps) |-> "INFO: Installing " \o apps[n].name]
    /\ install_ret = (IF faults = 0 THEN "true" ELSE "false")
    /\ faults = 0 =>
         \A n \in 1..Len(apps) :
           /\ Exists(tablet_json, apps[n].package)
           /\ tablet_json[apps[n].package].body =
                << [tablet_mode |-> TRUE,
                    force_tablet_ui |-> Get(apps[n], "tablet_optimized", FALSE),
                    stylus_support |-> Get(apps[n], "stylus_support", FALSE),
                    multi_window |-> TRUE,
                    resizable |-> TRUE] >>

\* C8 amended: as claimed, but the tablet config of a package carries the
\* flags of the last entry of the category with that package (of the entry
\* itself when the packages of the category are distinct, as in the
\* default catalog).
C8_InstallCategory ==
  InstallCategoryReturned =>
    LET apps == Lookup(apps_config, argv[2]) IN
    /\ Attempts = [n \in 1..Len(apps) |-> "INFO: Installing " \o apps[n].name]
    /\ install_ret = (IF faults = 0 THEN "true" ELSE "false")
    /\ success_count = Len(apps) - faults
    /\ faults = 0 =>
         \A n \in 1..Len(apps) :
           LET last == LastWith(apps, apps[n].package) IN
           /\ Exists(tablet_json, apps[n].package)
           /\ tablet_json[apps[n].package].body =
                << [tablet_mode |-> TRUE,
                    force_tablet_ui |-> Get(last, "tablet_optimized", FALSE),
                    stylus_support |-> Get(last, "stylus_support", FALSE),
                    multi_window |-> TRUE,
                    resizable |-> TRUE] >>

\* C8 witness: install productivity on the default catalog has returned
\* true with the six tablet configs written.
C8_Witness ==
  /\ InstallCategoryReturned
  /\ argv = <<"install", "productivity">>
  /\ apps_config = default_config
  /\ install_ret = "true"
  /\ Cardinality(DOMAIN tablet_json) = 6
  /\ tablet_json["com.microsoft.office.word"].body[1].stylus_support

\* every entry of every category of the catalog of the file system has its
\* shortcut in dir: the descriptor of the last entry with its package
AllShortcutsIn(dir, cfg) ==
  \A n \in 1..Len(AllApps(cfg)) :
    LET p == AllApps(cfg)[n].package IN
    /\ Exists(dir, p)
    /\ dir[p].body = ShortcutContent(LastWith(AllApps(cfg), p))

InstallCommand == Dispatch(argv) \in {"install_category", "install_all"}

FixedLines == 9

\* C10: the descriptor of an entry of the loaded catalog is the fixed
\* lines, then the tablet marker exactly when tablet_optimized is true,
\* then the stylus marker exactly when stylus_support is true; while
\* create_app_shortcuts runs, a shortcut file that was written holds the
\* descriptor of an entry with the package it is named after, and when it
\* has completed there is one executable file per distinct package,
\* holding the descriptor of the last entry with that package.
C10_Shortcuts ==
  LET all == AllApps(apps_config) IN
  /\ \A n \in 1..Len(all) :
       LET e == all[n]
           d == ShortcutContent(e)
           tab == Get(e, "tablet_optimized", FALSE) = TRUE
           sty == Get(e, "stylus_support", FALSE) = TRUE
       IN /\ Len(d) = FixedLines + (IF tab THEN 1 ELSE 0) + (IF sty THEN 1 ELSE 0)
          /\ \A k \in 1..FixedLines : d[k] \notin {TabletMarker, StylusMarker}
          /\ d[2] = "Name=" \o e.name
          /\ tab <=> (Len(d) > FixedLines /\ d[FixedLines + 1] = TabletMarker)
          /\ sty <=> (Len(d) > FixedLines /\ d[Len(d)] = StylusMarker)
          /\ \A k \in 1..Len(d) : d[k] = TabletMarker => k = FixedLines + 1
  /\ pc = "shortcuts_loop" =>
       \A p \in DOMAIN desktop :
         desktop[p].body # <<>> =>
           \E n \in 1..Len(all) : all[n].package = p /\ desktop[p].body = ShortcutContent(all[n])
  /\ (pc = "exit" /\ ~unhandled /\ Dispatch(argv) \in {"install_category", "install_all", "shortcuts"}) =>
       /\ DOMAIN desktop = Packages(all)
       /\ \A p \in DOMAIN desktop :
            /\ desktop[p].body = ShortcutContent(LastWith(all, p))
            /\ desktop[p].exec

\* C10 witness: shortcuts has completed on the user's catalog: two files
\* for four entries, the shared one with the descriptor of the last entry
\* of its package (both markers), the other with the stylus marker only.
C10_Witness ==
  /\ pc = "exit"
  /\ argv = <<"shortcuts">>
  /\ ~unhandled
  /\ Len(AllApps(apps_config)) = 4
  /\ DOMAIN desktop = {"org.chess", "com.adsk.sketchbook"}
  /\ desktop["org.chess"].body = ShortcutContent(ChessDrawApp)
  /\ desktop["org.chess"].body[FixedLines + 1] = TabletMarker
  /\ desktop["org.chess"].body[FixedLines + 2] = StylusMarker
  /\ Len(desktop["com.adsk.sketchbook"].body) = FixedLines + 1
  /\ desktop["com.adsk.sketchbook"].body[FixedLines + 1] = StylusMarker

====
